---- MODULE Spec2Model ----
(***************************************************************************)
(* Recurrence engine and completion-record ledger of the Tasks-as-Files    *)
(* plugin: the due-date calculator (recurrence-parser.ts), the ledger      *)
(* editor (utils/completion-records.ts) and the completion orchestrator    *)
(* (task-manager.ts, ui/task-controls.ts, ui/missed-recurrences-modal.ts). *)
(***************************************************************************)
EXTENDS Integers, Sequences, FiniteSets, TLC

VARIABLES
    din,        \* due-date calculator: the inputs of one evaluation
    dout,       \* due-date calculator: the result of the evaluation
    doc,        \* ledger editor: the note content being edited
    position,   \* ledger editor: the completionPosition setting
    calls,      \* ledger editor: the addCompletionRecord calls made, oldest first
    doc0,       \* ledger editor: the note content before the first call
    clock,      \* orchestrator: the current instant
    file,       \* orchestrator: the content of the task note in the vault
    cache,      \* orchestrator: the due property as the metadata cache holds it
    rule,       \* orchestrator: the recurrence the completion control was built with
    acts,       \* orchestrator: the completion actions invoked so far, oldest first
    meta,       \* orchestrator: the other properties as the metadata cache holds them
    uct,        \* orchestrator: the updateCompleteTimeField call under way
    toggles,    \* orchestrator: the clicks on the Complete/Uncomplete control so far
    value,      \* rule parser: the value of the recurrence property
    parsed,     \* rule parser: what parseRecurrence made of it
    lp,         \* due-date calculator: the loop under way, one iteration at a time
    cin,        \* classifier: the arguments of one isNoteATask call
    cout        \* classifier: what the call returned

classVars == <<cin, cout>>
dateVars == <<din, dout, value, parsed, lp, cin, cout>>
ledgerVars == <<doc, calls, doc0>>
noteVars == <<meta, uct, toggles>>
taskVars == <<clock, file, cache, rule, acts, meta, uct, toggles>>
vars == <<din, dout, doc, position, calls, doc0, clock, file, cache, rule, acts, meta, uct, toggles,
          value, parsed, lp, cin, cout>>

----------------------------------------------------------------------------
(* Time.  An instant is a number of ticks since 2023-01-01T00:00:00.000    *)
(* local time.  The clock is scaled down: a second has TicksPerSec ticks   *)
(* (sub-second precision of moment()) and a day has SecsPerDay seconds.    *)

TicksPerSec == 2
SecsPerDay == 2
DayTicks == TicksPerSec * SecsPerDay

Min(a, b) == IF a < b THEN a ELSE b

DayOf(t) == t \div DayTicks
TimeOfDay(t) == t % DayTicks
FloorSec(t) == t - (t % TicksPerSec)
FloorDay(t) == t - (t % DayTicks)

IsLeap(y) == (y % 4 = 0 /\ y % 100 # 0) \/ y % 400 = 0

DaysInMonth(y, m) ==
    IF m = 2 THEN (IF IsLeap(y) THEN 29 ELSE 28)
    ELSE IF m \in {4, 6, 9, 11} THEN 30 ELSE 31

\* The calendar date <<year, month, day>> of day number n, counted from
\* <<y, m, 1>> = day 0.
RECURSIVE YMDFrom(_, _, _)
YMDFrom(y, m, n) ==
    IF n < DaysInMonth(y, m) THEN <<y, m, n + 1>>
    ELSE IF m = 12 THEN YMDFrom(y + 1, 1, n - DaysInMonth(y, m))
    ELSE YMDFrom(y, m + 1, n - DaysInMonth(y, m))

YMD(n) == YMDFrom(2023, 1, n)

\* The day number of the first day of month m of year y.
RECURSIVE MonthStart(_, _)
MonthStart(y, m) ==
    IF y = 2023 /\ m = 1 THEN 0
    ELSE IF m = 1 THEN MonthStart(y - 1, 12) + DaysInMonth(y - 1, 12)
    ELSE MonthStart(y, m - 1) + DaysInMonth(y, m - 1)

DayNum(y, m, d) == MonthStart(y, m) + d - 1

\* The instant of midnight of a calendar date.
At(y, m, d) == DayNum(y, m, d) * DayTicks

\* moment.add(n, 'days'): the calendar day moves, the time of day stays.
AddDays(t, n) == t + n * DayTicks

\* moment.add(n, 'months'): the month moves and the day of the month is
\* clamped to the length of the target month; the time of day stays.
AddMonths(t, n) ==
    LET ymd == YMD(DayOf(t))
        total == ymd[1] * 12 + (ymd[2] - 1) + n
        y2 == total \div 12
        m2 == (total % 12) + 1
        d2 == Min(ymd[3], DaysInMonth(y2, m2))
    IN  DayNum(y2, m2, d2) * DayTicks + TimeOfDay(t)

----------------------------------------------------------------------------
(* Date strings.  A string holds either a calendar date ("date",           *)
(* YYYY-MM-DD) or a date with a time of day to the second ("datetime",     *)
(* YYYY-MM-DDTHH:mm:ss+ZZ); a property may also be missing ("absent") or   *)
(* the empty string ("empty").  v is the instant the string denotes.       *)

DateString(k, t) == [kind |-> k, v |-> t]
Absent == DateString("absent", 0)
Empty == DateString("empty", 0)

\* moment(string): the instant a string denotes.
Moment(s) == s.v

\* moment.format(): ISO 8601 to the second; the milliseconds are dropped.
FormatISO(t) == DateString("datetime", FloorSec(t))

\* moment.format('YYYY-MM-DD'): the time of day is dropped.
FormatDate(t) == DateString("date", FloorDay(t))

----------------------------------------------------------------------------
(* Recurrence rules and the due-date calculator.                           *)

Units == {"day", "week", "month", "year"}
Modes == {"after_due", "after_completion"}

RecurrenceInfo(a, u, m) == [amount |-> a, unit |-> u, mode |-> m]

addRecurrencePeriod(date, recurrence) ==
    CASE recurrence.unit = "day" -> AddDays(date, recurrence.amount)
      [] recurrence.unit = "week" -> AddDays(date, 7 * recurrence.amount)
      [] recurrence.unit = "month" -> AddMonths(date, recurrence.amount)
      [] recurrence.unit = "year" -> AddMonths(date, 12 * recurrence.amount)

\* The loop test of the catch-up loop: the date is stepped while it holds.
StillPast(date, now) == date < now

RECURSIVE ensureFutureDate(_, _, _)
ensureFutureDate(date, recurrence, now) ==
    IF StillPast(date, now)
    THEN ensureFutureDate(addRecurrencePeriod(date, recurrence), recurrence, now)
    ELSE date

hasTimeComponent(currentDue) == currentDue.kind = "datetime"

\* A calculator that steps the date past now in both modes.
calculateNextDueDateCatchUp(currentDue, completionTime, recurrence, now) ==
    LET currentDueMoment == Moment(currentDue)
        completionMoment == Moment(completionTime)
        base == IF recurrence.mode = "after_completion"
                THEN IF hasTimeComponent(currentDue)
                     THEN FloorDay(completionMoment) + TimeOfDay(currentDueMoment)
                     ELSE completionMoment
                ELSE currentDueMoment
        final == ensureFutureDate(addRecurrencePeriod(base, recurrence), recurrence, now)
    IN  IF hasTimeComponent(currentDue) THEN FormatISO(final) ELSE FormatDate(final)

\* calculateNextDueDate(currentDue, completionTime, recurrence), evaluated
\* at the instant now (the moment() the function takes for itself).
calculateNextDueDate(currentDue, completionTime, recurrence, now) ==
    LET currentDueMoment == Moment(currentDue)
        completionMoment == Moment(completionTime)
        base == IF recurrence.mode = "after_completion"
                THEN IF hasTimeComponent(currentDue)
                     THEN FloorDay(completionMoment) + TimeOfDay(currentDueMoment)
                     ELSE completionMoment
                ELSE currentDueMoment
        first == addRecurrencePeriod(base, recurrence)
        final == IF recurrence.mode = "after_due"
                 THEN ensureFutureDate(first, recurrence, now)
                 ELSE first
    IN  IF hasTimeComponent(currentDue) THEN FormatISO(final) ELSE FormatDate(final)

\* The exit test of the enumeration loop of getMissedRecurrences, also its
\* early return: the date is no longer counted as missed.
NotMissed(date, now) == date > now

RECURSIVE MissedFrom(_, _, _)
MissedFrom(date, recurrence, now) ==
    LET next == addRecurrencePeriod(date, recurrence)
    IN  IF NotMissed(next, now) THEN <<>>
        ELSE <<FormatISO(next)>> \o MissedFrom(next, recurrence, now)

\* getMissedRecurrences(currentDue, recurrence), evaluated at the instant now.
getMissedRecurrences(currentDue, recurrence, now) ==
    IF recurrence.mode # "after_due" THEN <<>>
    ELSE IF NotMissed(Moment(currentDue), now) THEN <<>>
    ELSE <<FormatISO(Moment(currentDue))>>
             \o MissedFrom(Moment(currentDue), recurrence, now)

----------------------------------------------------------------------------
(* Note content.  A text is a sequence of characters; a character is a     *)
(* line feed, a dash of a frontmatter fence, or a span of text that the    *)
(* patterns of the ledger editor match or skip as a whole: the ledger      *)
(* heading, the table header row, the divider row, a table row, the due    *)
(* property of the frontmatter, or other text.  Positions are counted from *)
(* 0 as in the code.                                                       *)

Char(k) == [k |-> k, s |-> Absent, st |-> "", n |-> 0]
NL == Char("nl")
Dash == Char("dash")
Heading == Char("heading")
Header == Char("header")
Divider == Char("divider")
Text == Char("text")
taskTypeValue == "Task"

\* The properties of a note other than the due property: the type, the done
\* flag and the completion time.
TaskProps(type, done, completeTime) ==
    [k |-> "props", s |-> completeTime, st |-> type, n |-> IF done THEN 1 ELSE 0]

\* Those of a task that is not done.
Props == TaskProps(taskTypeValue, FALSE, Absent)
DueProp(due) == [k |-> "due", s |-> due, st |-> "", n |-> 0]

\* A table row "| date | status | # |"; n is the number in the last cell,
\* or -1 when the cell holds no number.
Row(stamp, indicator, n) == [k |-> "row", s |-> stamp, st |-> indicator, n |-> n]

Fence == <<Dash, Dash, Dash, NL>>

\* The properties block of a task note: the other properties, then the due
\* property unless the note has none.
Frontmatter(due) ==
    Fence \o <<Props, NL>> \o (IF due = Absent THEN <<>> ELSE <<DueProp(due), NL>>) \o Fence

Max(a, b) == IF a > b THEN a ELSE b

SetMin(S) == CHOOSE x \in S : \A y \in S : x <= y

\* String.prototype.substring(a, b) and substring(a).
Substring(str, a, b) ==
    LET lo == Max(0, Min(Min(a, b), Len(str)))
        hi == Max(0, Min(Max(a, b), Len(str)))
    IN  SubSeq(str, lo + 1, hi)

SubstringFrom(str, a) == Substring(str, a, Len(str))

\* String.prototype.indexOf(pattern, from): -1 when there is no occurrence.
IndexOf(str, pattern, from) ==
    LET found == {i \in Max(from, 0)..(Len(str) - Len(pattern)) :
                      SubSeq(str, i + 1, i + Len(pattern)) = pattern}
    IN  IF found = {} THEN -1 ELSE SetMin(found)

\* String.prototype.search(regex) for a pattern that matches the spans of
\* kind k: the position of the first match, -1 when there is none.
Search(str, k) ==
    LET found == {i \in 0..(Len(str) - 1) : str[i + 1].k = k}
    IN  IF found = {} THEN -1 ELSE SetMin(found)

----------------------------------------------------------------------------
(* The ledger editor.                                                      *)

completedIndicator == "Done"
skippedIndicator == "Skipped"

\* moment(datetime).format(dateTimeFormat), with the default format
\* YYYY-MM-DDTHH:mm:ssZ.
formattedDatetime(datetime) == FormatISO(Moment(datetime))

statusIndicator(status) ==
    IF status = "completed" THEN completedIndicator ELSE skippedIndicator

\* The loop over rowRegex: the highest number in the last cell of a row.
RECURSIVE highestCount(_)
highestCount(tableContent) ==
    IF tableContent = <<>> THEN 0
    ELSE LET c == Head(tableContent)
             rest == highestCount(Tail(tableContent))
         IN  IF c.k = "row" /\ c.n > rest THEN c.n ELSE rest

newTable(datetime, status) ==
    <<Header, NL, Divider, NL, Row(formattedDatetime(datetime), statusIndicator(status), 1)>>

\* The position after the line feed that ends the line holding position pos.
LineEndPos(content, pos) == IndexOf(content, <<NL>>, pos) + 1

\* The branch that finds heading, header row and divider row.
InsertAfterDivider(content, datetime, status, headerLineEndPos) ==
    LET dividerPos == headerLineEndPos + Search(SubstringFrom(content, headerLineEndPos), "divider")
        dividerEndPos == LineEndPos(content, dividerPos)
        tableEndPos == IndexOf(content, <<NL, NL>>, dividerEndPos)
        tableContent == IF tableEndPos > 0
                        THEN Substring(content, dividerEndPos, tableEndPos)
                        ELSE SubstringFrom(content, dividerEndPos)
        updatedRow == Row(formattedDatetime(datetime), statusIndicator(status),
                          highestCount(tableContent) + 1)
    IN  Substring(content, 0, dividerEndPos) \o <<updatedRow, NL>>
            \o SubstringFrom(content, dividerEndPos)

\* The branch that finds heading and header row but no divider row.
RebuildTable(content, datetime, status, tableStartPos) ==
    LET tableEndPos == IndexOf(content, <<NL, NL>>, tableStartPos)
    IN  IF tableEndPos > 0
        THEN Substring(content, 0, tableStartPos) \o newTable(datetime, status)
                 \o SubstringFrom(content, tableEndPos)
        ELSE Substring(content, 0, tableStartPos) \o newTable(datetime, status)

\* The branch that finds no heading.
CreateSection(content, datetime, status, pos) ==
    LET newContent == <<Heading, NL>> \o newTable(datetime, status)
    IN  IF pos = "top"
        THEN LET frontmatterEndIndex == IndexOf(content, Fence, 0) + 4
                 secondFrontmatterEndIndex == IndexOf(content, Fence, frontmatterEndIndex) + 4
             IN  Substring(content, 0, secondFrontmatterEndIndex) \o <<NL, NL>> \o newContent
                     \o SubstringFrom(content, secondFrontmatterEndIndex)
        ELSE content \o <<NL, NL>> \o newContent

addCompletionRecord(content, datetime, status, pos) ==
    IF Search(content, "heading") >= 0
    THEN LET headingPos == Search(content, "heading")
             afterHeadingPos == LineEndPos(content, headingPos)
         IN  IF Search(SubstringFrom(content, afterHeadingPos), "header") >= 0
             THEN LET tableStartPos == afterHeadingPos
                                           + Search(SubstringFrom(content, afterHeadingPos), "header")
                      headerLineEndPos == LineEndPos(content, tableStartPos)
                  IN  IF Search(SubstringFrom(content, headerLineEndPos), "divider") >= 0
                      THEN InsertAfterDivider(content, datetime, status, headerLineEndPos)
                      ELSE RebuildTable(content, datetime, status, tableStartPos)
             ELSE Substring(content, 0, afterHeadingPos) \o <<NL>> \o newTable(datetime, status)
                      \o <<NL>> \o SubstringFrom(content, afterHeadingPos)
    ELSE CreateSection(content, datetime, status, pos)

----------------------------------------------------------------------------
(* The calculator on its own: one evaluation of each function over bounded *)
(* inputs.                                                                 *)

MinDueDay == 24
MaxDueDay == 31
MaxNowDay == 66
MaxAmount == 2

Rules == {RecurrenceInfo(a, u, m) : a \in 1..MaxAmount, u \in Units, m \in Modes}

\* The due-date strings of a day: the date alone, or the date with a time
\* of day to the second.
DueStringsOf(d) ==
    {DateString("date", d * DayTicks)}
        \cup {DateString("datetime", d * DayTicks + s * TicksPerSec) : s \in 0..(SecsPerDay - 1)}

DueStrings == UNION {DueStringsOf(d) : d \in MinDueDay..MaxDueDay}

NoResult == [op |-> "none", next |-> Absent, missed |-> <<>>]

----------------------------------------------------------------------------
(* The rule parser.  A string is the sequence of its characters; the value *)
(* of the recurrence property is whatever the properties block holds.      *)

JSValue(t, s, n) == [t |-> t, s |-> s, n |-> n]
Undefined == JSValue("undefined", <<>>, 0)
Null == JSValue("null", <<>>, 0)
Str(s) == JSValue("string", s, 0)
Num(n) == JSValue("number", <<>>, n)

\* !value: undefined, null, the empty string and the number 0 are falsy.
Falsy(v) ==
    \/ v.t \in {"undefined", "null"}
    \/ v.t = "string" /\ v.s = <<>>
    \/ v.t = "number" /\ v.n = 0

Whitespace == {" ", "\t"}
DigitChars == <<"0", "1", "2", "3", "4", "5", "6", "7", "8", "9">>
UpperChars == <<"A", "C", "D", "M", "W", "Y">>
LowerChars == <<"a", "c", "d", "m", "w", "y">>

IsDigit(c) == \E i \in DOMAIN DigitChars : DigitChars[i] = c
DigitValue(c) == (CHOOSE i \in DOMAIN DigitChars : DigitChars[i] = c) - 1

\* String.prototype.toLowerCase().
toLowerCase(s) ==
    [i \in DOMAIN s |->
        IF \E j \in DOMAIN UpperChars : UpperChars[j] = s[i]
        THEN LowerChars[CHOOSE j \in DOMAIN UpperChars : UpperChars[j] = s[i]]
        ELSE s[i]]

RECURSIVE TrimStart(_)
TrimStart(s) == IF s # <<>> /\ Head(s) \in Whitespace THEN TrimStart(Tail(s)) ELSE s

RECURSIVE TrimEnd(_)
TrimEnd(s) ==
    IF s # <<>> /\ s[Len(s)] \in Whitespace THEN TrimEnd(SubSeq(s, 1, Len(s) - 1)) ELSE s

\* String.prototype.trim().
trim(s) == TrimEnd(TrimStart(s))

\* The length of the match of \d+ at the start of s; 0 when there is none.
RECURSIVE DigitsLen(_)
DigitsLen(s) == IF s # <<>> /\ IsDigit(Head(s)) THEN 1 + DigitsLen(Tail(s)) ELSE 0

\* parseInt(digits, 10) of a string of decimal digits.
RECURSIVE parseInt(_)
parseInt(digits) ==
    IF digits = <<>> THEN 0
    ELSE 10 * parseInt(SubSeq(digits, 1, Len(digits) - 1)) + DigitValue(digits[Len(digits)])

UnitLetters == {"d", "w", "m", "y"}

UnitOfLetter(c) ==
    CASE c = "d" -> "day" [] c = "w" -> "week" [] c = "m" -> "month" [] c = "y" -> "year"

DayWord == <<"d", "a", "y">>
WeekWord == <<"w", "e", "e", "k">>
MonthWord == <<"m", "o", "n", "t", "h">>
YearWord == <<"y", "e", "a", "r">>
AfterWord == <<"a", "f", "t", "e", "r">>
CompletionWord == <<"c", "o", "m", "p", "l", "e", "t", "i", "o", "n">>

UnitWords == {DayWord, WeekWord, MonthWord, YearWord}

StartsWith(s, w) == Len(s) >= Len(w) /\ SubSeq(s, 1, Len(w)) = w

\* s matches ^\s+after\s+completion$ .
IsAfterCompletion(s) ==
    /\ s # <<>> /\ Head(s) \in Whitespace
    /\ LET a == TrimStart(s)
       IN  /\ StartsWith(a, AfterWord)
           /\ LET c == SubSeq(a, Len(AfterWord) + 1, Len(a))
              IN  /\ c # <<>> /\ Head(c) \in Whitespace
                  /\ TrimStart(c) = CompletionWord

\* The longform alternatives that rest can begin with so that what is
\* left of it is empty or the after-completion phrase.
LongformWords(rest) ==
    {w \in UnitWords \cup {u \o <<"s">> : u \in UnitWords} :
        /\ StartsWith(rest, w)
        /\ LET tail == SubSeq(rest, Len(w) + 1, Len(rest))
           IN  tail = <<>> \/ IsAfterCompletion(tail)}

\* A reading of the unit word that takes months for years.
UnitOfWordMonthAsYear(w) ==
    CASE StartsWith(w, DayWord) -> "day"
      [] StartsWith(w, WeekWord) -> "week"
      [] StartsWith(w, MonthWord) -> "year"
      [] StartsWith(w, YearWord) -> "year"

UnitOfWord(w) ==
    CASE StartsWith(w, DayWord) -> "day"
      [] StartsWith(w, WeekWord) -> "week"
      [] StartsWith(w, MonthWord) -> "month"
      [] StartsWith(w, YearWord) -> "year"

ParseResult(t, r) == [t |-> t, rule |-> r]
NoRule == [amount |-> 0, unit |-> "", mode |-> ""]
NotParsed == ParseResult("none", NoRule)
ReturnsNull == ParseResult("null", NoRule)
Throws == ParseResult("throw", NoRule)

\* parseRecurrence(recurrenceString).  A value that is truthy and not a
\* string has no trim method: the call throws a TypeError.
parseRecurrence(recurrenceString) ==
    IF Falsy(recurrenceString) THEN ReturnsNull
    ELSE IF recurrenceString.t # "string" THEN Throws
    ELSE LET normalized == toLowerCase(trim(recurrenceString.s))
             n == DigitsLen(normalized)
             amount == parseInt(SubSeq(normalized, 1, n))
             rest == TrimStart(SubSeq(normalized, n + 1, Len(normalized)))
         IN  IF n = 0 THEN ReturnsNull
             ELSE IF Len(rest) \in {1, 2} /\ rest[1] \in UnitLetters
                        /\ (Len(rest) = 2 => rest[2] = "c")
             THEN ParseResult("rule", RecurrenceInfo(amount, UnitOfLetter(rest[1]),
                                  IF Len(rest) = 2 THEN "after_completion" ELSE "after_due"))
             ELSE IF LongformWords(rest) # {}
             THEN LET w == CHOOSE x \in LongformWords(rest) : TRUE
                  IN  ParseResult("rule", RecurrenceInfo(amount, UnitOfWord(w),
                                  IF Len(rest) > Len(w) THEN "after_completion" ELSE "after_due"))
             ELSE ReturnsNull

\* No parseRecurrence call and no loop is under way.
ParserIdle == value = Undefined /\ parsed = NotParsed

----------------------------------------------------------------------------
(* The classifier.  The properties of a note are an object that gives a    *)
(* value for each property the block holds; a note without a properties    *)
(* block has no such object.                                               *)

TaskText == <<"T", "a", "s", "k">>
NoteText == <<"N", "o", "t", "e">>

\* An array of strings.
Arr(items) == JSValue("array", items, 0)

PropertyNames == {"Type", "Kind"}

\* frontmatter[name]: undefined for a name the object has no value for.
PropertyValue(frontmatter, name) ==
    IF name \in DOMAIN frontmatter.props THEN frontmatter.props[name] ELSE Undefined

\* An includes that looks at the first item only.
IncludesAtHead(items, x) == items # <<>> /\ items[1] = x

\* Array.prototype.includes.
Includes(items, x) == \E i \in DOMAIN items : items[i] = x

\* isNoteATask(frontmatter, taskTypeProperty, taskTypeValue) of utils.ts,
\* with the properties object and both settings as arguments.
isNoteATaskFor(frontmatter, typeProperty, typeValue) ==
    IF ~frontmatter.has \/ typeProperty = "" \/ typeValue = <<>> THEN FALSE
    ELSE LET propertyValue == PropertyValue(frontmatter, typeProperty)
         IN  IF propertyValue = Undefined THEN FALSE
             ELSE IF propertyValue = Str(typeValue) THEN TRUE
             ELSE IF propertyValue.t = "array" /\ Includes(propertyValue.s, typeValue)
             THEN TRUE
             ELSE FALSE

NoFrontmatter == [has |-> FALSE, props |-> [name \in PropertyNames |-> Undefined]]

\* No isNoteATask call is under way.
ClassifierIdle ==
    /\ cin = [frontmatter |-> NoFrontmatter, taskTypeProperty |-> "", taskTypeValue |-> <<>>]
    /\ cout = "none"
NoLoop == [pc |-> "idle", date |-> 0, steps |-> 0]


\* No updateCompleteTimeField call is under way, and none has returned.
\* ret is what the last call returned.
NoUpdate == [pc |-> "idle", isDone |-> FALSE, ret |-> "none"]

\* The orchestrator at rest, for the specifications that do not run it.
TaskIdle ==
    /\ clock = 0 /\ file = <<>> /\ cache = Absent /\ acts = <<>>
    /\ meta = Props /\ uct = NoUpdate /\ toggles = <<>>
    /\ rule = RecurrenceInfo(1, "day", "after_due")

InitDate ==
    /\ din \in {[due |-> d, rule |-> r, now |-> n, completed |-> FormatISO(n)] :
                    d \in DueStrings, r \in Rules,
                    n \in (MinDueDay * DayTicks)..(MaxNowDay * DayTicks)}
    /\ dout = NoResult
    /\ ParserIdle /\ lp = NoLoop /\ ClassifierIdle
    /\ doc = <<>> /\ position = "bottom" /\ calls = <<>> /\ doc0 = <<>>
    /\ TaskIdle

CalcNext ==
    /\ dout.op = "none"
    /\ dout' = [op |-> "next",
                next |-> calculateNextDueDate(din.due, din.completed, din.rule, din.now),
                missed |-> <<>>]
    /\ UNCHANGED <<din, value, parsed, lp, classVars, position, ledgerVars, taskVars>>

CalcMissed ==
    /\ dout.op = "none"
    /\ dout' = [op |-> "missed", next |-> Absent,
                missed |-> getMissedRecurrences(din.due, din.rule, din.now)]
    /\ UNCHANGED <<din, value, parsed, lp, classVars, position, ledgerVars, taskVars>>

NextDate == CalcNext \/ CalcMissed

SpecDate == InitDate /\ [][NextDate]_vars

\* The calculator given a completion time of its own: the task was
\* completed at some instant, and the function is evaluated then or later.
CompletionRules == {r \in Rules : r.mode = "after_completion"}

InitCompletion ==
    /\ din \in {[due |-> d, rule |-> r, now |-> n, completed |-> FormatISO(c)] :
                    d \in DueStrings, r \in CompletionRules,
                    c \in (MinDueDay * DayTicks)..(MaxNowDay * DayTicks),
                    n \in {(MaxNowDay + 1) * DayTicks - 1, 2 * MaxNowDay * DayTicks}}
    /\ dout = NoResult
    /\ ParserIdle /\ lp = NoLoop /\ ClassifierIdle
    /\ doc = <<>> /\ position = "bottom" /\ calls = <<>> /\ doc0 = <<>>
    /\ TaskIdle

NextCompletion == CalcNext

SpecCompletion == InitCompletion /\ [][NextCompletion]_vars

----------------------------------------------------------------------------
(* The rule parser on its own: one parseRecurrence call on a value of the  *)
(* recurrence property.                                                    *)

MaxDigit == 2
MaxDigits == 2

\* All sequences over S of length at most n.
StringsUpTo(S, n) == UNION {[1..k -> S] : k \in 0..n}

\* What the author may write for the amount: digits, or none, or a
\* negative or a fractional number.
AmountTexts ==
    StringsUpTo({DigitChars[d + 1] : d \in 0..MaxDigit}, MaxDigits)
        \cup {<<"-", "1">>, <<"1", ".", "5">>}

UnitTexts ==
    {<<c>> : c \in UnitLetters} \cup UnitWords \cup {u \o <<"s">> : u \in UnitWords}
        \cup {<<>>, <<"D">>, <<"x">>, <<"d", "a">>, <<"D", "a", "y", "s">>}

ModeTexts ==
    {<<>>, <<"c">>, <<"C">>, <<"c", "c">>, <<" ">> \o AfterWord,
     AfterWord \o <<" ">> \o CompletionWord,
     <<" ">> \o AfterWord \o <<" ">> \o CompletionWord,
     <<" ", "\t">> \o AfterWord \o <<"\t">> \o CompletionWord}

RuleValues ==
    {Str(lead \o a \o gap \o u \o m \o trail) :
        lead \in {<<>>, <<" ">>}, a \in AmountTexts, gap \in {<<>>, <<" ">>, <<"\t", " ">>},
        u \in UnitTexts, m \in ModeTexts, trail \in {<<>>, <<" ">>}}
        \cup {Undefined, Null} \cup {Num(n) : n \in 0..MaxDigit}

InitParse ==
    /\ value \in RuleValues
    /\ parsed = NotParsed
    /\ lp = NoLoop /\ ClassifierIdle
    /\ din = [due |-> Absent, rule |-> RecurrenceInfo(1, "day", "after_due"), now |-> 0, completed |-> Absent]
    /\ dout = NoResult
    /\ doc = <<>> /\ position = "bottom" /\ calls = <<>> /\ doc0 = <<>>
    /\ TaskIdle

ParseRecurrence ==
    /\ parsed = NotParsed
    /\ parsed' = parseRecurrence(value)
    /\ UNCHANGED <<din, dout, value, lp, classVars, position, ledgerVars, taskVars>>

NextParse == ParseRecurrence

SpecParse == InitParse /\ [][NextParse]_vars

----------------------------------------------------------------------------
(* The classifier on its own: one isNoteATask call.                        *)

MaxItems == 2

TypeTexts == {TaskText, NoteText, <<>>}

TypeValues ==
    {Undefined, Null, Num(1), Str(<<"t", "a", "s", "k">>)}
        \cup {Str(t) : t \in TypeTexts}
        \cup {Arr(items) : items \in UNION {[1..k -> TypeTexts] : k \in 0..MaxItems}}

InitClassify ==
    /\ cin \in {[frontmatter |-> f, taskTypeProperty |-> p, taskTypeValue |-> v] :
                    f \in {NoFrontmatter}
                           \cup {[has |-> TRUE, props |-> ps] : ps \in [PropertyNames -> TypeValues]},
                    p \in PropertyNames \cup {""},
                    v \in TypeTexts}
    /\ cout = "none"
    /\ ParserIdle /\ lp = NoLoop
    /\ din = [due |-> Absent, rule |-> RecurrenceInfo(1, "day", "after_due"), now |-> 0, completed |-> Absent]
    /\ dout = NoResult
    /\ doc = <<>> /\ position = "bottom" /\ calls = <<>> /\ doc0 = <<>>
    /\ TaskIdle

Classify ==
    /\ cout = "none"
    /\ cout' = IF isNoteATaskFor(cin.frontmatter, cin.taskTypeProperty, cin.taskTypeValue)
               THEN "true" ELSE "false"
    /\ UNCHANGED <<din, dout, value, parsed, lp, cin, position, ledgerVars, taskVars>>

NextClassify == Classify

SpecClassify == InitClassify /\ [][NextClassify]_vars

----------------------------------------------------------------------------
(* The loops of the calculator, one iteration at a time, for the rules the *)
(* parser makes of shorthand strings.                                      *)

LoopDays == 5

\* The passes of a loop are counted up to MaxSteps and no further.
MaxSteps == 8

ShorthandValues ==
    {Str(a \o <<u>> \o m) :
        a \in {<<DigitChars[d + 1]>> : d \in 0..MaxDigit},
        u \in UnitLetters, m \in {<<>>, <<"c">>}}

AcceptedValues == {v \in ShorthandValues : parseRecurrence(v).t = "rule"}

InitLoop ==
    /\ value \in AcceptedValues
    /\ parsed = parseRecurrence(value)
    /\ din \in {[due |-> d, rule |-> parsed.rule, now |-> n, completed |-> FormatISO(n)] :
                    d \in DueStringsOf(MinDueDay),
                    n \in (MinDueDay * DayTicks - 1)..((MinDueDay + LoopDays) * DayTicks)}
    /\ lp = NoLoop /\ ClassifierIdle
    /\ dout = NoResult
    /\ doc = <<>> /\ position = "bottom" /\ calls = <<>> /\ doc0 = <<>>
    /\ TaskIdle

\* getMissedRecurrences up to its loop: the early returns, or the current
\* due date is pushed and the loop is entered.
StartMissed ==
    /\ lp.pc = "idle"
    /\ lp' = IF din.rule.mode # "after_due" \/ NotMissed(Moment(din.due), din.now)
             THEN [pc |-> "returned", date |-> Moment(din.due), steps |-> 0]
             ELSE [pc |-> "missed", date |-> Moment(din.due), steps |-> 1]
    /\ UNCHANGED <<din, dout, value, parsed, classVars, position, ledgerVars, taskVars>>

\* One pass of the while (true) loop: the date is stepped, and the loop is
\* left when the date is after now, else the date is pushed.
StepMissed ==
    /\ lp.pc = "missed"
    /\ LET next == addRecurrencePeriod(lp.date, din.rule)
       IN  lp' = IF NotMissed(next, din.now)
                 THEN [lp EXCEPT !.pc = "returned", !.date = next]
                 ELSE [lp EXCEPT !.date = next, !.steps = Min(lp.steps + 1, MaxSteps)]
    /\ UNCHANGED <<din, dout, value, parsed, classVars, position, ledgerVars, taskVars>>

\* calculateNextDueDate up to its loop: the interval is added once, and
\* for mode after_due the catch-up loop is entered.
StartNext ==
    /\ lp.pc = "idle"
    /\ LET base == IF din.rule.mode = "after_completion"
                   THEN IF hasTimeComponent(din.due)
                        THEN FloorDay(Moment(din.completed)) + TimeOfDay(Moment(din.due))
                        ELSE Moment(din.completed)
                   ELSE Moment(din.due)
           first == addRecurrencePeriod(base, din.rule)
       IN  lp' = [pc |-> IF din.rule.mode = "after_due" THEN "catchup" ELSE "returned",
                  date |-> first, steps |-> 0]
    /\ UNCHANGED <<din, dout, value, parsed, classVars, position, ledgerVars, taskVars>>

\* The test of the catch-up loop and one pass of it.
StepCatchUp ==
    /\ lp.pc = "catchup"
    /\ IF StillPast(lp.date, din.now)
       THEN lp' = [lp EXCEPT !.date = addRecurrencePeriod(lp.date, din.rule),
                             !.steps = Min(lp.steps + 1, MaxSteps)]
       ELSE lp' = [lp EXCEPT !.pc = "returned"]
    /\ UNCHANGED <<din, dout, value, parsed, classVars, position, ledgerVars, taskVars>>

NextLoop == StartMissed \/ StepMissed \/ StartNext \/ StepCatchUp

\* The loops run without waiting for anything: a pass that can be made is
\* made.
SpecLoop == InitLoop /\ [][NextLoop]_vars /\ WF_vars(NextLoop)

----------------------------------------------------------------------------
(* The ledger editor on its own: successive addCompletionRecord calls on   *)
(* one note, from bounded initial notes.                                   *)

MaxBodyLen == 2
MaxRows == 2
MaxCalls == 3

\* A row of some other table of the note, with a number in its last cell.
ForeignRow == Row(Absent, "", 9)

SeqsUpTo(S, n) == UNION {[1..k -> S] : k \in 0..n}

Bodies == SeqsUpTo({Text, NL, ForeignRow}, MaxBodyLen)

\* The data rows a ledger may hold already: numbered, or with a last cell
\* that holds no number.
OldRows == {Row(FormatISO(0), completedIndicator, n) : n \in {-1, 1, 3}}

RECURSIVE AsLines(_)
AsLines(rows) ==
    IF rows = <<>> THEN <<>> ELSE <<NL, Head(rows)>> \o AsLines(Tail(rows))

\* The ledger sections a note may hold: a well-formed table with 0 to
\* MaxRows rows, a heading with no table, a table with no divider row.
Sections ==
    {<<Heading, NL, Header, NL, Divider>> \o AsLines(rows) : rows \in SeqsUpTo(OldRows, MaxRows)}
        \cup {<<Heading>>}
        \cup {<<Heading, NL, Header>> \o AsLines(rows) : rows \in SeqsUpTo(OldRows, 1)}

Before == {<<>>, <<Text, NL>>, <<Text, NL, NL>>}
\* Another table further down the note: a header row of its own, a divider
\* row and a row.
OtherTable == <<NL, NL, Text, NL, Divider, NL, ForeignRow>>

After == {<<>>, <<NL>>, <<NL, Text>>, <<NL, NL, Text>>, OtherTable}

\* A note that is its properties block and nothing else, the closing
\* delimiter being its last line, with no line feed after it.
PropertiesOnly ==
    LET fm == Frontmatter(DateString("date", 0)) IN SubSeq(fm, 1, Len(fm) - 1)

InitialNotes ==
    {fm \o body : fm \in {<<>>, Frontmatter(DateString("date", 0))}, body \in Bodies}
        \cup {PropertiesOnly}
        \cup {Frontmatter(DateString("date", 0)) \o b \o sec \o a :
                  b \in Before, sec \in Sections, a \in After}

Timestamps == {FormatISO(At(2023, 1, 8)), FormatISO(At(2023, 1, 15))}

InitLedger ==
    /\ doc \in InitialNotes
    /\ doc0 = doc
    /\ position \in {"top", "bottom"}
    /\ calls = <<>>
    /\ din = [due |-> Absent, rule |-> RecurrenceInfo(1, "day", "after_due"), now |-> 0, completed |-> Absent]
    /\ dout = NoResult
    /\ ParserIdle /\ lp = NoLoop /\ ClassifierIdle
    /\ TaskIdle

\* The sequence number of the row a call wrote: that of the first row from
\* the place on where the content after the call departs from the content
\* before it.
NewRowNumber(before, after) ==
    LET d == SetMin({i \in DOMAIN after : i > Len(before) \/ before[i] # after[i]})
    IN  after[SetMin({i \in DOMAIN after : i >= d /\ after[i].k = "row"})].n

AddRecord ==
    /\ Len(calls) < MaxCalls
    /\ \E datetime \in Timestamps, status \in {"completed", "skipped"} :
          /\ doc' = addCompletionRecord(doc, datetime, status, position)
          /\ calls' = Append(calls, [datetime |-> datetime, status |-> status, before |-> doc,
                                      n |-> NewRowNumber(doc, doc')])
    /\ UNCHANGED <<position, doc0, dateVars, taskVars>>

NextLedger == AddRecord

SpecLedger == InitLedger /\ [][NextLedger]_vars

----------------------------------------------------------------------------
(* The ledger editor on a note whose table the user edits between the      *)
(* calls.                                                                  *)

MaxRemovals == 1

\* The rows the user has removed so far: those the note had, and one for
\* each call, less those it has.
RowsRemoved ==
    Cardinality({i \in DOMAIN doc0 : doc0[i].k = "row"}) + Len(calls)
        - Cardinality({i \in DOMAIN doc : doc[i].k = "row"})

\* The notes the user edits: no ledger yet, or a well-formed table.
EditedNotes ==
    {Frontmatter(DateString("date", 0)) \o <<Text>>}
        \cup {Frontmatter(DateString("date", 0)) \o <<Text, NL>>
                  \o <<Heading, NL, Header, NL, Divider>> \o AsLines(rows) \o a :
                  rows \in SeqsUpTo(OldRows, MaxRows), a \in {<<>>, <<NL>>}}

InitEdit ==
    /\ doc \in EditedNotes
    /\ doc0 = doc
    /\ position \in {"top", "bottom"}
    /\ calls = <<>>
    /\ din = [due |-> Absent, rule |-> RecurrenceInfo(1, "day", "after_due"), now |-> 0, completed |-> Absent]
    /\ dout = NoResult
    /\ ParserIdle /\ lp = NoLoop /\ ClassifierIdle
    /\ TaskIdle

\* The user removes a line that holds a row of the ledger, with the line
\* feed after it, or the one before it when it is the last line.
RemoveRow ==
    /\ calls # <<>>
    /\ RowsRemoved < MaxRemovals
    /\ \E i \in DOMAIN doc :
          /\ doc[i].k = "row" /\ doc[i] # ForeignRow
          /\ IF i < Len(doc) /\ doc[i + 1] = NL
             THEN doc' = SubSeq(doc, 1, i - 1) \o SubSeq(doc, i + 2, Len(doc))
             ELSE /\ i > 1 /\ doc[i - 1] = NL
                  /\ doc' = SubSeq(doc, 1, i - 2) \o SubSeq(doc, i + 1, Len(doc))
    /\ UNCHANGED <<position, calls, doc0, dateVars, taskVars>>

NextEdit == AddRecord \/ RemoveRow

SpecEdit == InitEdit /\ [][NextEdit]_vars

----------------------------------------------------------------------------
(* The completion orchestrator: the complete-recurrence control of one     *)
(* task note, the disambiguation modal, and the storage operations of the  *)
(* continuations, each of which may fail.                                  *)

StartDay == 2
MaxTicks == 1
MaxActions == 2
MaxFailures == 1

\* The due property of a note's properties block; Absent when it has none.
DueOf(content) ==
    LET i == Search(content, "due") IN IF i < 0 THEN Absent ELSE content[i + 1].s

\* fileManager.processFrontMatter with a callback that sets the due
\* property: the key is replaced in place, or added as the last property.
processFrontMatter(content, nextDue) ==
    LET i == Search(content, "due")
        close == IndexOf(content, Fence, Len(Fence))
    IN  IF i >= 0
        THEN Substring(content, 0, i) \o <<DueProp(nextDue)>> \o SubstringFrom(content, i + 1)
        ELSE IF close >= 0
        THEN Substring(content, 0, close) \o <<DueProp(nextDue), NL>>
                 \o SubstringFrom(content, close)
        ELSE Frontmatter(nextDue) \o content

\* A guard that lets an empty due property through.
DueMissingOnlyAbsent(currentDue) == currentDue.kind = "absent"

\* The other properties of a note; no type when it has no properties block.
PropsOf(content) ==
    LET i == Search(content, "props")
    IN  IF i < 0 THEN TaskProps("", FALSE, Absent) ELSE content[i + 1]

\* isNoteATask: the type property equals the configured value.
isNoteATask(frontmatter) == frontmatter.st = taskTypeValue

\* updateTaskControls and createControlsContainer, run on every change of
\* the metadata cache: the complete-recurrence control is there when the
\* cached properties are those of a task that is not done.
ControlShown == isNoteATask(meta) /\ meta.n = 0

\* !currentDue
DueMissing(currentDue) == currentDue.kind \in {"absent", "empty"}

\* Thresholds other than the one of the code: a modal for a single missed
\* date, no modal for two.
NeedsDecisionForOne(missedDates) == Len(missedDates) > 0
NeedsDecisionOverTwo(missedDates) == Len(missedDates) > 2

\* missedDates.length > 1
NeedsDecision(missedDates) == Len(missedDates) > 1

\* A status that ignores the button chosen.
StatusAlwaysCompleted(action) == "completed"

\* action === 'complete' ? 'completed' : 'skipped'
StatusOf(action) == IF action = "complete" THEN "completed" ELSE "skipped"

\* A loop that leaves out the last missed date.
RECURSIVE AddMissedRecordsButLast(_, _, _, _)
AddMissedRecordsButLast(content, missedDates, status, pos) ==
    IF Len(missedDates) <= 1 THEN content
    ELSE AddMissedRecordsButLast(addCompletionRecord(content, Head(missedDates), status, pos),
                                 Tail(missedDates), status, pos)

\* The loop of handleMissedRecurrences: one record per missed date, in the
\* order of the list.
RECURSIVE AddMissedRecords(_, _, _, _)
AddMissedRecords(content, missedDates, status, pos) ==
    IF missedDates = <<>> THEN content
    ELSE AddMissedRecords(addCompletionRecord(content, Head(missedDates), status, pos),
                          Tail(missedDates), status, pos)

\* A completion action. pc is where it stands: "error" (failure thrown
\* before anything was started), "modal" (the disambiguation modal is open),
\* "abandoned" (the modal was closed without a choice), "pfm", "read",
\* "modify" (the storage operation it awaits), "done", "failed" (a storage
\* operation failed). decided and action tell the button chosen in the
\* modal, wrote whether a write of it has reached the note. The other fields
\* are the values its code holds.
NewAction ==
    [pc |-> "error", currentDue |-> cache, now |-> Absent, missedDates |-> <<>>,
     decided |-> FALSE, action |-> "", status |-> "", nextDue |-> Absent,
     updatedContent |-> <<>>, wrote |-> FALSE]

OpenModals == {i \in DOMAIN acts : acts[i].pc = "modal"}

\* The due properties of the notes: none, an empty one, and the days around
\* the first day of the clock, as a date or with a time of day.
TaskDues ==
    {Absent, Empty}
        \cup {DateString("date", d * DayTicks) : d \in (StartDay - 1)..(StartDay + 1)}
        \cup {DateString("datetime", d * DayTicks + TicksPerSec) :
                  d \in (StartDay - 1)..(StartDay + 1)}

TaskNotes == {Frontmatter(due) \o body :
                 due \in TaskDues, body \in {<<Text>>, <<NL, ForeignRow, NL>>}}

Init ==
    /\ file \in TaskNotes
    /\ cache = DueOf(file)
    /\ meta = PropsOf(file)
    /\ uct = NoUpdate /\ toggles = <<>>
    /\ clock \in (StartDay * DayTicks)..(StartDay * DayTicks + TicksPerSec - 1)
    /\ rule \in {RecurrenceInfo(a, "day", "after_due") : a \in 1..MaxAmount}
                   \cup {RecurrenceInfo(1, "day", "after_completion")}
    /\ position \in {"top", "bottom"}
    /\ acts = <<>>
    /\ din = [due |-> Absent, rule |-> RecurrenceInfo(1, "day", "after_due"), now |-> 0, completed |-> Absent]
    /\ dout = NoResult
    /\ ParserIdle /\ lp = NoLoop /\ ClassifierIdle
    /\ doc = <<>> /\ calls = <<>> /\ doc0 = <<>>

\* The click on the complete-recurrence control: completeRecurrence up to
\* its first await. It throws on a missing due date, opens the modal when
\* more than one recurrence was missed, and otherwise runs
\* completeCurrentRecurrence up to its processFrontMatter call.
CompleteRecurrence ==
    /\ ControlShown
    /\ Len(acts) < MaxActions
    /\ LET currentDue == cache
           now == FormatISO(clock)
           missedDates == getMissedRecurrences(currentDue, rule, clock)
           a == NewAction
       IN  acts' = Append(acts,
               IF DueMissing(currentDue) THEN a
               ELSE IF NeedsDecision(missedDates)
               THEN [a EXCEPT !.pc = "modal", !.now = now, !.missedDates = missedDates]
               ELSE [a EXCEPT !.pc = "pfm", !.now = now, !.missedDates = missedDates,
                              !.status = "completed",
                              !.nextDue = calculateNextDueDate(currentDue, now, rule, clock)])
    /\ UNCHANGED <<clock, file, cache, rule, position, dateVars, ledgerVars, noteVars>>

\* A button of the modal: the callback runs handleMissedRecurrences up to
\* its processFrontMatter call, and the modal closes.
Decide(i, action) ==
    /\ acts[i].pc = "modal"
    /\ acts' = [acts EXCEPT ![i] =
                   [@ EXCEPT !.pc = "pfm", !.decided = TRUE, !.action = action,
                             !.status = StatusOf(action),
                             !.nextDue = calculateNextDueDate(acts[i].currentDue, acts[i].now,
                                                               rule, clock)]]
    /\ UNCHANGED <<clock, file, cache, rule, position, dateVars, ledgerVars, noteVars>>

\* A modal whose onClose runs the callback as the skip button does.
AbandonRunsCallback(i) ==
    /\ acts[i].pc = "modal"
    /\ acts' = [acts EXCEPT ![i] =
                   [@ EXCEPT !.pc = "pfm", !.status = StatusOf("skip"),
                             !.nextDue = calculateNextDueDate(acts[i].currentDue, acts[i].now,
                                                               rule, clock)]]
    /\ UNCHANGED <<clock, file, cache, rule, position, dateVars, ledgerVars, noteVars>>

\* The modal is closed without a choice: onClose empties it, the callback
\* never runs.
Abandon(i) ==
    /\ acts[i].pc = "modal"
    /\ acts' = [acts EXCEPT ![i].pc = "abandoned"]
    /\ UNCHANGED <<clock, file, cache, rule, position, dateVars, ledgerVars, noteVars>>

\* await processFrontMatter(...) completes: the due property is written.
ProcessFrontMatterDone(i) ==
    /\ acts[i].pc = "pfm"
    /\ file' = processFrontMatter(file, acts[i].nextDue)
    /\ acts' = [acts EXCEPT ![i] = [@ EXCEPT !.pc = "read", !.wrote = TRUE]]
    /\ UNCHANGED <<clock, cache, rule, position, dateVars, ledgerVars, noteVars>>

\* await vault.read(file) completes: the records are added to the content
\* read and vault.modify is called with the result.
VaultReadDone(i) ==
    /\ acts[i].pc = "read"
    /\ LET content == file
           updatedContent ==
               IF acts[i].decided
               THEN AddMissedRecords(content, acts[i].missedDates, acts[i].status, position)
               ELSE addCompletionRecord(content, acts[i].now, "completed", position)
       IN  acts' = [acts EXCEPT ![i] =
                       [@ EXCEPT !.pc = IF updatedContent # content THEN "modify" ELSE "done",
                                 !.updatedContent = updatedContent]]
    /\ UNCHANGED <<clock, file, cache, rule, position, dateVars, ledgerVars, noteVars>>

\* await vault.modify(file, updatedContent) completes: the note is replaced.
VaultModifyDone(i) ==
    /\ acts[i].pc = "modify"
    /\ file' = acts[i].updatedContent
    /\ acts' = [acts EXCEPT ![i].pc = "done"]
    /\ UNCHANGED <<clock, cache, rule, position, dateVars, ledgerVars, noteVars>>

\* The storage operation an action awaits rejects: the action's catch
\* blocks report the failure, nothing more is done.
StorageFails(i) ==
    /\ Cardinality({j \in DOMAIN acts : acts[j].pc = "failed"}) < MaxFailures
    /\ acts[i].pc \in {"pfm", "read", "modify"}
    /\ acts' = [acts EXCEPT ![i].pc = "failed"]
    /\ UNCHANGED <<clock, file, cache, rule, position, dateVars, ledgerVars, noteVars>>

\* The metadata cache catches up with the note.
MetadataChanged ==
    /\ cache # DueOf(file) \/ meta # PropsOf(file)
    /\ cache' = DueOf(file)
    /\ meta' = PropsOf(file)
    /\ UNCHANGED <<clock, file, rule, acts, uct, toggles, position, dateVars, ledgerVars>>

\* A day passes. No storage operation is left waiting over it.
Tick ==
    /\ \A i \in DOMAIN acts : acts[i].pc \notin {"pfm", "read", "modify"}
    /\ DayOf(clock) < StartDay + MaxTicks
    /\ clock' = clock + DayTicks
    /\ UNCHANGED <<file, cache, rule, acts, position, dateVars, ledgerVars, noteVars>>

Next ==
    \/ CompleteRecurrence
    \/ \E i \in DOMAIN acts, action \in {"complete", "skip"} : Decide(i, action)
    \/ \E i \in DOMAIN acts : Abandon(i)
    \/ \E i \in DOMAIN acts : ProcessFrontMatterDone(i)
    \/ \E i \in DOMAIN acts : VaultReadDone(i)
    \/ \E i \in DOMAIN acts : VaultModifyDone(i)
    \/ \E i \in DOMAIN acts : StorageFails(i)
    \/ MetadataChanged
    \/ Tick

Spec == Init /\ [][Next]_vars

----------------------------------------------------------------------------
(* The orchestrator on a weekly task that was left alone for six weeks:    *)
(* due 2023-09-01, the control activated on 2023-10-16.                    *)

WeeklyDue == DateString("date", At(2023, 9, 1))

WeeklyNotes ==
    {Frontmatter(WeeklyDue) \o body : body \in {<<>>, <<Text>>, <<NL, Text, NL>>}}
        \cup {SubSeq(Frontmatter(WeeklyDue), 1, Len(Frontmatter(WeeklyDue)) - 1)}

InitWeekly ==
    /\ file \in WeeklyNotes
    /\ cache = DueOf(file)
    /\ meta = PropsOf(file)
    /\ uct = NoUpdate /\ toggles = <<>>
    /\ clock \in At(2023, 10, 16)..(At(2023, 10, 16) + DayTicks - 1)
    /\ rule = RecurrenceInfo(1, "week", "after_due")
    /\ position \in {"top", "bottom"}
    /\ acts = <<>>
    /\ din = [due |-> Absent, rule |-> RecurrenceInfo(1, "day", "after_due"), now |-> 0, completed |-> Absent]
    /\ dout = NoResult
    /\ ParserIdle /\ lp = NoLoop /\ ClassifierIdle
    /\ doc = <<>> /\ calls = <<>> /\ doc0 = <<>>

NextWeekly ==
    \/ CompleteRecurrence
    \/ \E i \in DOMAIN acts, action \in {"complete", "skip"} : Decide(i, action)
    \/ \E i \in DOMAIN acts : Abandon(i)
    \/ \E i \in DOMAIN acts : ProcessFrontMatterDone(i)
    \/ \E i \in DOMAIN acts : VaultReadDone(i)
    \/ \E i \in DOMAIN acts : VaultModifyDone(i)
    \/ \E i \in DOMAIN acts : StorageFails(i)
    \/ MetadataChanged

SpecWeekly == InitWeekly /\ [][NextWeekly]_vars

----------------------------------------------------------------------------
(* The orchestrator on notes whose other properties change: the user       *)
(* retypes the note, and updateCompleteTimeField runs after a save or a    *)
(* change of the active leaf.                                              *)

\* The note with its other properties replaced.
WithProps(content, props) ==
    LET i == Search(content, "props")
    IN  IF i < 0 THEN content
        ELSE Substring(content, 0, i) \o <<props>> \o SubstringFrom(content, i + 1)

\* !currentCompleteTime
NoCompleteTime(frontmatter) == frontmatter.s.kind \in {"absent", "empty"}

\* shouldUpdate of updateCompleteTimeField.
shouldUpdate(frontmatter) ==
    \/ frontmatter.n = 1 /\ NoCompleteTime(frontmatter)
    \/ frontmatter.n = 0 /\ ~NoCompleteTime(frontmatter)

TypedNotes ==
    {Fence \o <<TaskProps(type, done, completeTime), NL, DueProp(due), NL>> \o Fence \o <<Text>> :
        type \in {taskTypeValue, "Note"}, done \in BOOLEAN,
        completeTime \in {Absent, FormatISO(0)},
        due \in {DateString("date", (StartDay - 1) * DayTicks)}}

InitTask ==
    /\ file \in TypedNotes
    /\ cache = DueOf(file)
    /\ meta = PropsOf(file)
    /\ uct = NoUpdate /\ toggles = <<>>
    /\ clock = StartDay * DayTicks
    /\ rule = RecurrenceInfo(1, "day", "after_due")
    /\ position = "bottom"
    /\ acts = <<>>
    /\ din = [due |-> Absent, rule |-> RecurrenceInfo(1, "day", "after_due"), now |-> 0, completed |-> Absent]
    /\ dout = NoResult
    /\ ParserIdle /\ lp = NoLoop /\ ClassifierIdle
    /\ doc = <<>> /\ calls = <<>> /\ doc0 = <<>>

\* The user changes the type property of the note: it is a task no more.
Retype ==
    /\ isNoteATask(PropsOf(file))
    /\ file' = WithProps(file, [PropsOf(file) EXCEPT !.st = "Note"])
    /\ UNCHANGED <<clock, cache, rule, acts, noteVars, position, dateVars, ledgerVars>>

\* updateCompleteTimeField up to its await: it returns false at once unless
\* the cached properties are those of a task whose completion time does not
\* match its done flag, and else calls processFrontMatter.
UpdateCompleteTimeField ==
    /\ uct.pc = "idle"
    /\ uct' = IF isNoteATask(meta) /\ shouldUpdate(meta)
              THEN [pc |-> "pfm", isDone |-> meta.n = 1, ret |-> "none"]
              ELSE [pc |-> "idle", isDone |-> FALSE, ret |-> "false"]
    /\ UNCHANGED <<clock, file, cache, rule, acts, meta, toggles, position, dateVars, ledgerVars>>

\* Its processFrontMatter completes: the completion time is set to the
\* current time, or to the empty string, and the call returns true.
CompleteTimeWritten ==
    /\ uct.pc = "pfm"
    /\ file' = WithProps(file, [PropsOf(file) EXCEPT
                                   !.s = IF uct.isDone THEN FormatISO(clock) ELSE Empty])
    /\ uct' = [pc |-> "idle", isDone |-> FALSE, ret |-> "true"]
    /\ UNCHANGED <<clock, cache, rule, acts, meta, toggles, position, dateVars, ledgerVars>>

\* Its processFrontMatter rejects: the call throws.
CompleteTimeFails ==
    /\ uct.pc = "pfm"
    /\ uct' = [pc |-> "idle", isDone |-> FALSE, ret |-> "throws"]
    /\ UNCHANGED <<clock, file, cache, rule, acts, meta, toggles, position, dateVars, ledgerVars>>

NextTask ==
    \/ Next
    \/ Retype
    \/ UpdateCompleteTimeField
    \/ CompleteTimeWritten
    \/ CompleteTimeFails

SpecTask == InitTask /\ [][NextTask]_vars

----------------------------------------------------------------------------
(* Reading a note as lines, to state what the ledger of a note is.         *)

RECURSIVE Lines(_)
Lines(content) ==
    LET nl == IndexOf(content, <<NL>>, 0)
    IN  IF nl < 0 THEN <<content>>
        ELSE <<Substring(content, 0, nl)>> \o Lines(SubstringFrom(content, nl + 1))

RECURSIVE Join(_)
Join(lines) ==
    IF Len(lines) = 0 THEN <<>>
    ELSE IF Len(lines) = 1 THEN lines[1]
    ELSE lines[1] \o <<NL>> \o Join(Tail(lines))

Holds(line, k) == \E i \in DOMAIN line : line[i].k = k

\* The number of the first line that holds the ledger heading; 0 if none.
HeadingLine(lines) ==
    LET found == {i \in DOMAIN lines : Holds(lines[i], "heading")}
    IN  IF found = {} THEN 0 ELSE SetMin(found)

\* The number of the first line after the heading line that holds a table
\* header row; 0 if none.
HeaderLine(lines) ==
    LET h == HeadingLine(lines)
        found == {i \in DOMAIN lines : h > 0 /\ i > h /\ Holds(lines[i], "header")}
    IN  IF found = {} THEN 0 ELSE SetMin(found)

\* Heading and well-formed table: the header row is a line of its own and
\* the divider row is the next line.
WellFormedLedger(content) ==
    LET lines == Lines(content)
        t == HeaderLine(lines)
    IN  /\ t > 0
        /\ lines[t] = <<Header>>
        /\ t + 1 <= Len(lines)
        /\ lines[t + 1] = <<Divider>>

IsRowLine(line) == line # <<>> /\ line[1].k = "row"

\* The data rows: the lines under the divider row, as far as they are rows.
RECURSIVE RowsFrom(_, _)
RowsFrom(lines, i) ==
    IF i <= Len(lines) /\ IsRowLine(lines[i])
    THEN <<lines[i][1]>> \o RowsFrom(lines, i + 1)
    ELSE <<>>

DataRows(content) ==
    LET lines == Lines(content) IN RowsFrom(lines, HeaderLine(lines) + 2)

\* The highest number among the sequence cells that hold a number; 0 when
\* none does.
RECURSIVE MaxSequence(_)
MaxSequence(rows) ==
    IF rows = <<>> THEN 0
    ELSE Max(IF Head(rows).n >= 0 THEN Head(rows).n ELSE 0, MaxSequence(Tail(rows)))

\* The content with one more line put right after line number i.
WithLineAfter(content, i, line) ==
    LET lines == Lines(content)
    IN  Join(SubSeq(lines, 1, i) \o <<line>> \o SubSeq(lines, i + 1, Len(lines)))

Last(seq) == seq[Len(seq)]

----------------------------------------------------------------------------
(* Claims about the ledger editor.                                         *)

\* C2: when the ledger heading and a well-formed table (header row and
\* divider row) are present, addCompletionRecord gives the new row the
\* sequence number 1 + the highest numeric sequence cell of the existing
\* rows (1 when no row has a number) and inserts the new row as the line
\* right after the divider row.
C2_NewRowNumberedAndUnderDivider ==
    (calls # <<>> /\ WellFormedLedger(Last(calls).before))
        => LET c == Last(calls)
               row == Row(FormatISO(Moment(c.datetime)), statusIndicator(c.status),
                          1 + MaxSequence(DataRows(c.before)))
           IN  doc = WithLineAfter(c.before, HeaderLine(Lines(c.before)) + 1, <<row>>)

\* The case of C2: a row was added to a well-formed table that holds a
\* numbered row and a row without a number.
C2_Witness ==
    /\ calls # <<>>
    /\ WellFormedLedger(Last(calls).before)
    /\ \E i, j \in DOMAIN DataRows(Last(calls).before) :
           /\ DataRows(Last(calls).before)[i].n = -1
           /\ DataRows(Last(calls).before)[j].n > 0

Count(content, k) == Cardinality({i \in DOMAIN content : content[i].k = k})

\* C3: starting from a note without the ledger heading, n successive
\* addCompletionRecord calls (n >= 1, position top or bottom) produce one
\* table with exactly n data rows whose sequence numbers read n, n-1, ..., 1
\* from the row under the divider downward.
C3_RowsNumberedNewestFirst ==
    (calls # <<>> /\ Search(doc0, "heading") < 0)
        => /\ Count(doc, "header") = 1
           /\ Count(doc, "divider") = 1
           /\ Len(DataRows(doc)) = Len(calls)
           /\ \A i \in DOMAIN DataRows(doc) : DataRows(doc)[i].n = Len(calls) + 1 - i

\* The case of C3: a ledger built by several calls at the top of a note
\* that had no heading.
C3_Witness ==
    /\ Search(doc0, "heading") < 0
    /\ Len(calls) >= 2
    /\ position = "top"

----------------------------------------------------------------------------
(* Claims about the calculator.                                            *)

Moments(strings) == [i \in DOMAIN strings |-> Moment(strings[i])]

\* C1: for every rule with mode after_due and amount >= 1, every current
\* due date and every evaluation instant now, calculateNextDueDate returns
\* a date strictly after now (never equal to now, never before it).
C1_NextDueStrictlyAfterNow ==
    (dout.op = "next" /\ din.rule.mode = "after_due" /\ din.rule.amount >= 1)
        => Moment(dout.next) > din.now

\* The case of C1 where the catch-up loop has run: an overdue after_due
\* task whose next due date was computed.
C1_Witness ==
    /\ dout.op = "next"
    /\ din.rule.mode = "after_due"
    /\ addRecurrencePeriod(Moment(din.due), din.rule) < din.now

\* The k-th occurrence counted from the due date in one step:
\* due + k * amount * unit.
Occurrence(due, recurrence, k) ==
    addRecurrencePeriod(due, [recurrence EXCEPT !.amount = k * recurrence.amount])

RECURSIVE OccurrencesBefore(_, _, _, _)
OccurrencesBefore(due, recurrence, now, k) ==
    IF Occurrence(due, recurrence, k) < now
    THEN <<Occurrence(due, recurrence, k)>> \o OccurrencesBefore(due, recurrence, now, k + 1)
    ELSE <<>>

\* C4: for mode after_due with a due date strictly before now,
\* getMissedRecurrences returns exactly the dates due + k*amount*unit
\* (k = 0, 1, 2, ...) that are strictly before now, in increasing order; a
\* date equal to now is excluded.
C4_MissedAreOccurrencesBeforeNow ==
    (dout.op = "missed" /\ din.rule.mode = "after_due" /\ Moment(din.due) < din.now)
        => Moments(dout.missed) = OccurrencesBefore(Moment(din.due), din.rule, din.now, 0)

\* The case of C4: several occurrences of an overdue after_due task were
\* enumerated.
C4_Witness ==
    /\ dout.op = "missed"
    /\ din.rule.mode = "after_due"
    /\ Moment(din.due) < din.now
    /\ Len(dout.missed) >= 3

----------------------------------------------------------------------------
(* Claims about the completion orchestrator.                                *)

\* The step in which action i goes from one place to another.
Moves(i, from, to) == acts[i].pc = from /\ acts'[i].pc \in to

\* The step that invokes a completion action.
Invokes == Len(acts') = Len(acts) + 1

Ascending(dates) ==
    \A j, k \in DOMAIN dates : j < k => Moment(dates[j]) < Moment(dates[k])

\* C5: on a decision (complete or skip) over n missed dates the continuation
\* sets the due property to calculateNextDueDate(currentDue, now, recurrence)
\* as evaluated when the decision is made, and writes the content it read
\* with exactly n more rows: the top n data rows of the ledger, newest
\* first, carry the missed dates in chronological order of appending, each
\* stamped with its missed date and all with the indicator of the outcome
\* chosen.
C5_DecisionRecordsMissedDates ==
    [][\A i \in DOMAIN acts :
          LET a == acts[i]
              n == Len(a.missedDates)
              rows == DataRows(acts'[i].updatedContent)
              chosen == IF acts'[i].action = "complete" THEN completedIndicator
                        ELSE skippedIndicator
          IN  /\ Moves(i, "modal", {"pfm"}) =>
                    /\ acts'[i].action \in {"complete", "skip"}
                    /\ acts'[i].nextDue =
                           calculateNextDueDate(a.currentDue, a.now, rule, clock)
                    /\ file' = file
              /\ (a.decided /\ Moves(i, "pfm", {"read"})) =>
                    DueOf(file') = a.nextDue
              /\ (a.decided /\ Moves(i, "read", {"modify", "done"})) =>
                    /\ n > 1 /\ Ascending(a.missedDates)
                    /\ acts'[i].pc = "modify"
                    /\ Count(acts'[i].updatedContent, "row") = Count(file, "row") + n
                    /\ Len(rows) >= n
                    /\ \A j \in 1..n : /\ rows[j].s = a.missedDates[n + 1 - j]
                                       /\ rows[j].st = chosen
              /\ (a.decided /\ Moves(i, "modify", {"done"})) =>
                    file' = a.updatedContent
      ]_vars

C5_Witness ==
    \E i \in DOMAIN acts :
        /\ acts[i].pc = "done" /\ acts[i].action = "skip"
        /\ Len(acts[i].missedDates) = 2
        /\ Moment(acts[i].missedDates[2]) < Moment(acts[i].now)
        /\ DataRows(file)[1].s = acts[i].missedDates[2]
        /\ DataRows(file)[2].s = acts[i].missedDates[1]
        /\ DueOf(file) = acts[i].nextDue

\* C6: when zero or exactly one occurrence is missed a completion action
\* opens no modal, sets the due property to
\* calculateNextDueDate(currentDue, now, recurrence) and writes the content
\* it read with exactly one more row, the top data row of the ledger,
\* stamped with now and carrying the completed indicator; due 2023-10-15
\* with 1w completed on 2023-10-16 gives due 2023-10-22.
C6_SingleCompletion ==
    /\ LET due == DateString("date", At(2023, 10, 15))
           weekly == RecurrenceInfo(1, "week", "after_due")
           now == At(2023, 10, 16)
       IN  /\ Len(getMissedRecurrences(due, weekly, now)) = 1
           /\ calculateNextDueDate(due, FormatISO(now), weekly, now)
                  = DateString("date", At(2023, 10, 22))
    /\ [][/\ (/\ Invokes
              /\ cache.kind \in {"date", "datetime"}
              /\ Len(getMissedRecurrences(cache, rule, clock)) <= 1) =>
                 LET new == Last(acts')
                 IN  /\ new.pc = "pfm"
                     /\ new.now = FormatISO(clock)
                     /\ new.nextDue = calculateNextDueDate(cache, new.now, rule, clock)
                     /\ file' = file
          /\ \A i \in DOMAIN acts :
                LET a == acts[i]
                    rows == DataRows(acts'[i].updatedContent)
                IN  /\ (~a.decided /\ Moves(i, "pfm", {"read"})) =>
                          DueOf(file') = a.nextDue
                    /\ (~a.decided /\ Moves(i, "read", {"modify", "done"})) =>
                          /\ acts'[i].pc = "modify"
                          /\ Count(acts'[i].updatedContent, "row") = Count(file, "row") + 1
                          /\ Len(rows) >= 1
                          /\ rows[1].s = a.now
                          /\ rows[1].st = completedIndicator
                    /\ (~a.decided /\ Moves(i, "modify", {"done"})) =>
                          file' = a.updatedContent
      ]_vars

C6_Witness ==
    \E i \in DOMAIN acts :
        /\ acts[i].pc = "done" /\ ~acts[i].decided
        /\ Len(acts[i].missedDates) = 1
        /\ DataRows(file)[1].s = acts[i].now
        /\ DueOf(file) = acts[i].nextDue

\* C7: a completion action that finds more than one missed occurrence opens
\* the modal and starts no storage operation; while the modal is open, and
\* for good once it is closed without a choice, the action has written
\* nothing and does nothing more, so the note is as it was as far as this
\* action goes.
C7_NothingWrittenBeforeDecision ==
    /\ [](\A i \in DOMAIN acts :
             acts[i].pc \in {"modal", "abandoned"} =>
                 ~acts[i].wrote /\ ~acts[i].decided /\ acts[i].updatedContent = <<>>)
    /\ [][/\ (/\ Invokes
              /\ cache.kind \in {"date", "datetime"}
              /\ Len(getMissedRecurrences(cache, rule, clock)) > 1) =>
                 (Last(acts').pc = "modal" /\ file' = file)
          /\ \A i \in DOMAIN acts :
                /\ Moves(i, "modal", {"abandoned"}) => file' = file
                /\ acts[i].pc = "abandoned" => acts'[i] = acts[i]
                /\ (acts[i].pc = "modal" /\ file' # file) =>
                       \E j \in DOMAIN acts : j # i /\ acts[j].pc \in {"pfm", "modify"}
      ]_vars

C7_Witness ==
    \E i \in DOMAIN acts :
        /\ acts[i].pc = "abandoned"
        /\ Len(acts[i].missedDates) > 1
        /\ DueOf(file) = acts[i].currentDue
        /\ Search(file, "heading") < 0

\* C8: when a storage operation of a completion action fails, and no other
\* action has written, the note has the due property and the ledger it had
\* before the action.
C8_FailureLeavesNoPartialCommit ==
    \A i \in DOMAIN acts :
        (acts[i].pc = "failed" /\ \A j \in DOMAIN acts : j # i => ~acts[j].wrote)
            => (DueOf(file) = acts[i].currentDue /\ Search(file, "heading") < 0)

C8_Witness ==
    \E i \in DOMAIN acts : acts[i].pc = "failed" /\ acts[i].wrote

\* C9: a completion action invoked while the due property is absent or
\* empty throws, starts no storage operation and never writes.
C9_MissingDueFailsWithoutWrite ==
    /\ [](\A i \in DOMAIN acts :
             acts[i].currentDue.kind \in {"absent", "empty"} =>
                 (acts[i].pc = "error" /\ ~acts[i].wrote))
    /\ [][/\ (Invokes /\ cache.kind \in {"absent", "empty"}) =>
                 (Last(acts').pc = "error" /\ file' = file)
          /\ \A i \in DOMAIN acts : acts[i].pc = "error" => acts'[i] = acts[i]
      ]_vars

C9_Witness ==
    \E i \in DOMAIN acts :
        /\ acts[i].pc = "error" /\ acts[i].currentDue = Empty
        /\ DueOf(file) = Empty

\* C10: no completion action is invoked on the note while the modal of an
\* earlier one is open.
C10_NoActionWhileModalOpen ==
    \A i, j \in DOMAIN acts : i < j => acts[i].pc # "modal"

C10_Witness ==
    \E i \in DOMAIN acts : acts[i].pc = "modal" /\ Len(acts) > i

----------------------------------------------------------------------------
(* Claims about the classification of the note.                            *)

\* A step in which the program writes the note.
ProgramWrites ==
    \/ \E i \in DOMAIN acts : Moves(i, "pfm", {"read"}) \/ Moves(i, "modify", {"done"})
    \/ uct.pc = "pfm" /\ file' # file

\* C11: every write of completeRecurrence, of the missed-occurrence
\* continuation and of updateCompleteTimeField is made on a note that
\* classifies as a task when the write is made.
C11_OnlyTasksAreWritten ==
    [][ProgramWrites => isNoteATask(PropsOf(file))]_vars

C11_Witness ==
    /\ ~isNoteATask(PropsOf(file))
    /\ \E i \in DOMAIN acts : acts[i].wrote /\ DueOf(file) = acts[i].nextDue

----------------------------------------------------------------------------
(* More claims about the ledger editor.                                    *)

\* A line that holds nothing of the ledger: no heading, no header row, no
\* divider row and no row other than those of another table.
IsOtherLine(line) ==
    /\ line # <<>>
    /\ \A i \in DOMAIN line :
          /\ line[i].k \notin {"heading", "header", "divider"}
          /\ line[i].k = "row" => line[i] = ForeignRow

\* The lines of the properties block and of the body that are not blank
\* and not part of the ledger, in their order.
OtherLines(content) == SelectSeq(Lines(content), IsOtherLine)

\* C12: after an addCompletionRecord call the lines of the properties block
\* and the body lines that are not part of the ledger are the ones of the
\* content before the call, each a line of its own, in the same order.
C12_OtherLinesUnchanged ==
    calls # <<>> => OtherLines(doc) = OtherLines(Last(calls).before)

C12_Witness ==
    /\ calls # <<>>
    /\ Len(OtherLines(Last(calls).before)) > 4
    /\ Search(Last(calls).before, "heading") >= 0
    /\ OtherLines(doc) = OtherLines(Last(calls).before)

\* Heading and table header row are there, and the line after the header
\* row is not a divider row.
MalformedLedger(content) ==
    LET lines == Lines(content)
        t == HeaderLine(lines)
    IN  /\ t > 0
        /\ ~(t + 1 <= Len(lines) /\ lines[t + 1] = <<Divider>>)

\* C13: when the heading and a table header row are present and no divider
\* row follows the header row, addCompletionRecord leaves under the heading
\* a well-formed table whose only data row is the new one, numbered 1, and
\* the rows of the other tables of the note are as they were.
C13_MalformedTableRebuilt ==
    (calls # <<>> /\ MalformedLedger(Last(calls).before))
        => LET c == Last(calls)
           IN  /\ WellFormedLedger(doc)
               /\ DataRows(doc)
                     = <<Row(FormatISO(Moment(c.datetime)), statusIndicator(c.status), 1)>>
               /\ Count(doc, "row") = 1 + Cardinality({i \in DOMAIN c.before :
                                                          c.before[i] = ForeignRow})

C13_Witness ==
    /\ calls # <<>>
    /\ MalformedLedger(Last(calls).before)
    /\ Count(Last(calls).before, "row") > 0
    /\ WellFormedLedger(doc)
    /\ Len(DataRows(doc)) = 1

\* The number of data rows of the ledger: the rows under the divider row
\* of a well-formed table, the rows under the header row of a table with
\* no divider row, none when there is no table.
LedgerRowCount(content) ==
    LET lines == Lines(content)
        t == HeaderLine(lines)
    IN  IF t = 0 THEN 0
        ELSE IF WellFormedLedger(content) THEN Len(DataRows(content))
        ELSE Len(RowsFrom(lines, t + 1))

\* C14: every addCompletionRecord call leaves the ledger with exactly one
\* data row more than it had, whatever the note held: no heading, a heading
\* with no table, a well-formed table, a table with no divider row.
C14_OneMoreRowPerCall ==
    calls # <<>> => LedgerRowCount(doc) = LedgerRowCount(Last(calls).before) + 1

C14_Witness ==
    /\ calls # <<>>
    /\ WellFormedLedger(Last(calls).before)
    /\ LedgerRowCount(Last(calls).before) = 2
    /\ LedgerRowCount(doc) = 3

\* C15: whatever rows the user removes between the calls, the sequence
\* number a call gives to its row is greater than the number every earlier
\* call gave.
C15_SequenceNeverLowered ==
    \A i, j \in DOMAIN calls : i < j => calls[j].n > calls[i].n

C15_Witness ==
    /\ Len(calls) = 3
    /\ Count(doc, "row") < Count(doc0, "row") + 3
    /\ calls[1].n < calls[2].n /\ calls[2].n < calls[3].n

\* The position after the closing delimiter of the properties block: the
\* first line is a delimiter, and the next line that is a delimiter closes
\* the block; -1 when the note has no properties block.
ClosingDelimiterEnd(content) ==
    LET dashes == <<Dash, Dash, Dash>>
        closes == {i \in 4..(Len(content) - 3) :
                      /\ content[i] = NL
                      /\ SubSeq(content, i + 1, i + 3) = dashes
                      /\ (i + 3 = Len(content) \/ content[i + 4] = NL)}
    IN  IF Len(content) >= 4 /\ SubSeq(content, 1, 4) = Fence /\ closes # {}
        THEN SetMin(closes) + 3
        ELSE -1

RECURSIVE SkipLineFeeds(_)
SkipLineFeeds(content) ==
    IF content # <<>> /\ Head(content) = NL THEN SkipLineFeeds(Tail(content)) ELSE content

\* The new section stands in after at position pos of before, line feeds
\* around it apart: what is before pos is kept, then comes the heading,
\* the header row, the divider row and one data row numbered 1, then what
\* was after pos.
SectionInsertedAt(before, after, pos, datetime, status) ==
    LET section == <<Heading, NL>> \o newTable(datetime, status)
        rest == SkipLineFeeds(SubstringFrom(after, pos))
    IN  /\ Substring(after, 0, pos) = Substring(before, 0, pos)
        /\ Substring(rest, 0, Len(section)) = section
        /\ SkipLineFeeds(SubstringFrom(rest, Len(section)))
               = SkipLineFeeds(SubstringFrom(before, pos))

\* C16: when the note has no ledger heading, addCompletionRecord puts the
\* heading, a header row, a divider row and one data row numbered 1
\* immediately after the closing delimiter of the properties block for
\* position top, and at the very end of the note for position bottom.
C16_SectionCreatedInPlace ==
    (calls # <<>> /\ Search(Last(calls).before, "heading") < 0)
        => LET c == Last(calls)
           IN  /\ position = "bottom"
                      => SectionInsertedAt(c.before, doc, Len(c.before), c.datetime, c.status)
               /\ (position = "top" /\ ClosingDelimiterEnd(c.before) >= 0)
                      => SectionInsertedAt(c.before, doc, ClosingDelimiterEnd(c.before),
                                           c.datetime, c.status)

C16_Witness ==
    /\ calls # <<>>
    /\ Search(Last(calls).before, "heading") < 0
    /\ position = "top"
    /\ ClosingDelimiterEnd(Last(calls).before) > 0
    /\ Len(Last(calls).before) > ClosingDelimiterEnd(Last(calls).before) + 1
    /\ SectionInsertedAt(Last(calls).before, doc, ClosingDelimiterEnd(Last(calls).before),
                         Last(calls).datetime, Last(calls).status)

\* C17: for a rule with mode after_completion, calculateNextDueDate returns
\* the date of the completion plus one increment of amount units and steps
\* no further, also when that date is not after now: due 2023-01-01,
\* completed 2023-06-15, 2 days after completion gives 2023-06-17.
C17_OneIncrementFromCompletion ==
    /\ (dout.op = "next" /\ din.rule.mode = "after_completion")
           => DayOf(Moment(dout.next))
                  = DayOf(addRecurrencePeriod(Moment(din.completed), din.rule))
    /\ calculateNextDueDate(DateString("date", At(2023, 1, 1)), FormatISO(At(2023, 6, 15) + 1),
                            RecurrenceInfo(2, "day", "after_completion"), At(2023, 7, 1))
           = DateString("date", At(2023, 6, 17))

C17_Witness ==
    /\ dout.op = "next"
    /\ din.rule.mode = "after_completion"
    /\ Moment(din.completed) > Moment(din.due)
    /\ Moment(dout.next) < din.now
    /\ DayOf(Moment(dout.next)) = DayOf(addRecurrencePeriod(Moment(din.completed), din.rule))

\* C18: getMissedRecurrences returns the empty sequence whenever the mode
\* is after_completion, and whenever the current due date is not strictly
\* in the past: it is after now or it is now.
C18_NothingMissedUnlessPast ==
    (dout.op = "missed"
        /\ (din.rule.mode = "after_completion" \/ Moment(din.due) >= din.now))
        => dout.missed = <<>>

C18_Witness ==
    /\ dout.op = "missed"
    /\ din.rule.mode = "after_due"
    /\ Moment(din.due) > din.now
    /\ dout.missed = <<>>

\* C19: for every rule that parseRecurrence accepts, every current due
\* date and every now, the loop of getMissedRecurrences and the catch-up
\* loop of calculateNextDueDate come to their end: the function returns.
C19_LoopsTerminate == <>(lp.pc = "returned")

C19_Witness ==
    /\ lp.pc = "returned"
    /\ lp.steps >= 2
    /\ parsed.t = "rule" /\ din.rule = parsed.rule
    /\ din.rule.mode = "after_due"
    /\ lp.date > din.now

\* C20: parseRecurrence never throws and never returns a rule whose amount
\* is less than 1; for a value that is missing or empty, and for a value
\* that does not start with a number, it returns null.
C20_NullForEveryBadValue ==
    parsed # NotParsed
        => /\ parsed.t # "throw"
           /\ parsed.t = "rule" => parsed.rule.amount >= 1
           /\ (value.t # "string" \/ DigitsLen(trim(value.s)) = 0) => parsed.t = "null"

C20_Witness ==
    /\ parsed.t = "null"
    /\ value.t = "string"
    /\ DigitsLen(trim(value.s)) > 0
    /\ Len(value.s) > Len(trim(value.s))

----------------------------------------------------------------------------
(* More claims about the completion orchestrator.                          *)

\* C21: a completion action works out the missed occurrences and the next
\* due date from the due property the note holds at the moment the action
\* is invoked, not from a value taken earlier.
C21_EvaluatesCurrentDue ==
    [][Invokes =>
          LET new == Last(acts')
          IN  /\ new.currentDue = DueOf(file)
              /\ ~DueMissing(DueOf(file)) =>
                     new.missedDates = getMissedRecurrences(DueOf(file), rule, clock)
              /\ new.pc = "pfm" =>
                     new.nextDue = calculateNextDueDate(DueOf(file), new.now, rule, clock)
      ]_vars

C21_Witness ==
    \E i, j \in DOMAIN acts :
        /\ i < j
        /\ acts[i].pc = "done"
        /\ acts[j].currentDue = acts[i].nextDue
        /\ acts[j].pc = "pfm"

----------------------------------------------------------------------------
(* More claims about the rule parser.                                      *)

MaxWritten == 12

\* The decimal digits of n, as the author writes them.
RECURSIVE DecimalString(_)
DecimalString(n) ==
    IF n < 10 THEN <<DigitChars[n + 1]>>
    ELSE DecimalString(n \div 10) \o <<DigitChars[(n % 10) + 1]>>

LetterOfUnit(u) ==
    CASE u = "day" -> "d" [] u = "week" -> "w" [] u = "month" -> "m" [] u = "year" -> "y"

WordOfUnit(u) ==
    CASE u = "day" -> DayWord [] u = "week" -> WeekWord
      [] u = "month" -> MonthWord [] u = "year" -> YearWord

\* n<unit-letter>[c]
ShorthandForm(n, u, c) ==
    DecimalString(n) \o <<LetterOfUnit(u)>> \o (IF c THEN <<"c">> ELSE <<>>)

\* n <unit-word>[s] [after completion]
LongformForm(n, u, plural, c) ==
    DecimalString(n) \o <<" ">> \o WordOfUnit(u) \o (IF plural THEN <<"s">> ELSE <<>>)
        \o (IF c THEN <<" ">> \o AfterWord \o <<" ">> \o CompletionWord ELSE <<>>)

\* C22: for every amount n >= 1, every unit and either mode, parseRecurrence
\* makes of the shorthand n<unit-letter>[c] and of the longform
\* 'n <unit-word>[s] [after completion]' the same rule, with amount n, that
\* unit, and mode after_completion exactly when the c or the phrase is
\* there.
C22_ShorthandAndLongformAgree ==
    (parsed # NotParsed /\ value.t = "string") =>
        \A n \in 1..MaxWritten :
            DecimalString(n) = SubSeq(value.s, 1, DigitsLen(value.s)) =>
                \A u \in Units, plural \in BOOLEAN, c \in BOOLEAN :
                    value.s \in {ShorthandForm(n, u, c), LongformForm(n, u, plural, c)}
                        => parsed = ParseResult("rule",
                               RecurrenceInfo(n, u, IF c THEN "after_completion"
                                                    ELSE "after_due"))

C22_Witness ==
    /\ value = Str(LongformForm(12, "month", TRUE, TRUE))
    /\ parsed = parseRecurrence(Str(ShorthandForm(12, "month", TRUE)))
    /\ parsed = ParseResult("rule", RecurrenceInfo(12, "month", "after_completion"))

\* The rows read from the top of the ledger are numbered n, n - 1, ..., 1,
\* carry the dates given, latest first, and all the same indicator.
RowsRecord(rows, dates, indicator) ==
    /\ Len(rows) = Len(dates)
    /\ \A j \in DOMAIN rows :
          /\ rows[j].n = Len(dates) + 1 - j
          /\ rows[j].s = dates[Len(dates) + 1 - j]
          /\ rows[j].st = indicator

\* A task with due 2023-09-01 and rule 1w, evaluated on 2023-10-16: every
\* action on it finds count missed dates.
WeeklyMissed(count) ==
    \A i \in DOMAIN acts :
        acts[i].currentDue = WeeklyDue =>
            (acts[i].pc # "error" /\ Len(acts[i].missedDates) = count)

\* On skip the continuation hands to vault.modify a note with count skipped
\* rows numbered 1 to count.
WeeklySkipped(count) ==
    \A i \in DOMAIN acts :
        (/\ acts[i].currentDue = WeeklyDue
         /\ acts[i].action = "skip"
         /\ Search(file, "heading") < 0
         /\ Moves(i, "read", {"modify", "done"}))
            => /\ acts'[i].pc = "modify"
               /\ Count(acts'[i].updatedContent, "row") = count
               /\ RowsRecord(DataRows(acts'[i].updatedContent), acts[i].missedDates,
                             skippedIndicator)

\* C23 as stated: a task with due 2023-09-01 and rule 1w (after_due),
\* evaluated at now = 2023-10-16, has 6 missed dates, and skip on the
\* disambiguation produces 6 skipped rows with sequence numbers 1 to 6.
C23_SixMissedSixSkipped ==
    /\ [](WeeklyMissed(6))
    /\ [][WeeklySkipped(6)]_vars

\* C23 with the count the dates give: 2023-09-01, 09-08, 09-15, 09-22,
\* 09-29, 10-06 and 10-13 are 7 missed dates, and skip produces 7 skipped
\* rows with sequence numbers 1 to 7.
C23_SevenMissedSevenSkipped ==
    /\ Moments(getMissedRecurrences(WeeklyDue, RecurrenceInfo(1, "week", "after_due"),
                                    At(2023, 10, 16)))
           = <<At(2023, 9, 1), At(2023, 9, 8), At(2023, 9, 15), At(2023, 9, 22),
               At(2023, 9, 29), At(2023, 10, 6), At(2023, 10, 13)>>
    /\ [](WeeklyMissed(7))
    /\ [][WeeklySkipped(7)]_vars

C23_Witness ==
    \E i \in DOMAIN acts :
        /\ acts[i].pc = "done" /\ acts[i].action = "skip"
        /\ acts[i].currentDue = WeeklyDue
        /\ Len(acts[i].missedDates) = 7
        /\ RowsRecord(DataRows(file), acts[i].missedDates, skippedIndicator)

----------------------------------------------------------------------------
(* Claims about the classifier.                                            *)

\* The value of the configured type property equals the configured type
\* value or is a sequence that contains it.
HoldsTypeValue ==
    LET v == PropertyValue(cin.frontmatter, cin.taskTypeProperty)
    IN  /\ cin.frontmatter.has
        /\ \/ v = Str(cin.taskTypeValue)
           \/ v.t = "array" /\ \E i \in DOMAIN v.s : v.s[i] = cin.taskTypeValue

\* C24 as stated: isNoteATask returns true exactly when the value of the
\* configured type property equals the configured type value or is a
\* sequence containing it, and false in every other case.
C24_TaskIffTypeValue ==
    cout # "none" => (cout = "true" <=> HoldsTypeValue)

\* C24 for settings that name a property and a value: when neither the
\* configured type property nor the configured type value is empty,
\* isNoteATask returns true exactly when the value of the property equals
\* the configured value or is a sequence containing it; when one of them is
\* empty it returns false.
C24_TaskIffTypeValueConfigured ==
    cout # "none" =>
        (cout = "true" <=>
            (cin.taskTypeProperty # "" /\ cin.taskTypeValue # <<>> /\ HoldsTypeValue))

C24_Witness ==
    /\ cout = "true"
    /\ cin.frontmatter.props[cin.taskTypeProperty] = Arr(<<NoteText, TaskText>>)
    /\ cin.taskTypeValue = TaskText


----------------------------------------------------------------------------
(* The calculator on every way the author may write a time of day.  A due  *)
(* date typed by hand may separate the date and the time by a space        *)
(* ("spaced", YYYY-MM-DD HH:mm:ss), which moment parses as it parses the   *)
(* form with a T.                                                          *)

SpacedStringsOf(d) ==
    {DateString("spaced", d * DayTicks + s * TicksPerSec) : s \in 0..(SecsPerDay - 1)}

WrittenDueStrings ==
    DueStrings \cup UNION {SpacedStringsOf(d) : d \in MinDueDay..MaxDueDay}

\* hasTimeComponent of the utilities: a T, a colon or a time pattern in the
\* string, or else a time of day other than midnight once parsed.
hasTimeComponentOfString(dateString) ==
    IF dateString.kind = "datetime" \/ dateString.kind = "spaced"
    THEN TRUE
    ELSE TimeOfDay(Moment(dateString)) # 0

InitPrecision ==
    /\ din \in {[due |-> d, rule |-> r, now |-> n, completed |-> FormatISO(n)] :
                    d \in WrittenDueStrings, r \in Rules,
                    n \in (MinDueDay * DayTicks)..(MaxNowDay * DayTicks)}
    /\ dout = NoResult
    /\ ParserIdle /\ lp = NoLoop /\ ClassifierIdle
    /\ doc = <<>> /\ position = "bottom" /\ calls = <<>> /\ doc0 = <<>>
    /\ TaskIdle

NextPrecision == CalcNext

SpecPrecision == InitPrecision /\ [][NextPrecision]_vars

\* C25: calculateNextDueDate keeps the precision of the due date it is
\* given, in both modes: a due date with a time of day yields a full
\* timestamp, a due date without one yields a date alone.
C25_PrecisionPreserved ==
    dout.op = "next" =>
        IF hasTimeComponentOfString(din.due)
        THEN dout.next.kind = "datetime"
        ELSE dout.next.kind = "date"

\* A due date written with a space before its time of day comes back as a
\* date alone.
C25_Witness ==
    /\ dout.op = "next"
    /\ din.due.kind = "spaced"
    /\ TimeOfDay(Moment(din.due)) # 0
    /\ dout.next.kind = "date"


----------------------------------------------------------------------------
(* The done flag and the completion time: the Complete/Uncomplete control, *)
(* the user ticking the done property by hand, and                         *)
(* updateCompleteTimeField.                                                *)

MaxToggles == 2

\* The click on the Complete/Uncomplete control, up to its await. The
\* control was rendered from the cached properties: isDone is the done flag
\* the cache held then, and the handler takes the time for itself. held is
\* what the note holds when the control is activated.
ToggleTaskDoneStatus ==
    /\ isNoteATask(meta)
    /\ Len(toggles) < MaxToggles
    /\ toggles' = Append(toggles,
           [pc |-> "pfm", isDone |-> meta.n = 1, now |-> FormatISO(clock),
            held |-> PropsOf(file), left |-> PropsOf(file)])
    /\ UNCHANGED <<clock, file, cache, rule, acts, meta, uct, position, dateVars, ledgerVars>>

\* Its processFrontMatter completes: the done flag and the completion time
\* are written together. left is what the note holds after the write.
ToggleWritten(i) ==
    /\ toggles[i].pc = "pfm"
    /\ file' = WithProps(file, [PropsOf(file) EXCEPT
                                   !.n = IF toggles[i].isDone THEN 0 ELSE 1,
                                   !.s = IF toggles[i].isDone THEN Empty ELSE toggles[i].now])
    /\ toggles' = [toggles EXCEPT ![i] = [@ EXCEPT !.pc = "done", !.left = PropsOf(file')]]
    /\ UNCHANGED <<clock, cache, rule, acts, meta, uct, position, dateVars, ledgerVars>>

\* Its processFrontMatter rejects: the handler has no catch, nothing is
\* written.
ToggleFails(i) ==
    /\ toggles[i].pc = "pfm"
    /\ toggles' = [toggles EXCEPT ![i].pc = "failed"]
    /\ UNCHANGED <<clock, file, cache, rule, acts, meta, uct, position, dateVars, ledgerVars>>

\* The user ticks or unticks the done property in the note.
EditDone ==
    /\ file' = WithProps(file, [PropsOf(file) EXCEPT !.n = 1 - @])
    /\ UNCHANGED <<clock, cache, rule, acts, noteVars, position, dateVars, ledgerVars>>

NextDone ==
    \/ ToggleTaskDoneStatus
    \/ \E i \in DOMAIN toggles : ToggleWritten(i)
    \/ \E i \in DOMAIN toggles : ToggleFails(i)
    \/ EditDone
    \/ UpdateCompleteTimeField
    \/ CompleteTimeWritten
    \/ CompleteTimeFails
    \/ MetadataChanged

SpecDone == InitTask /\ [][NextDone]_vars

\* A step in which an updateCompleteTimeField call returns r.
UpdateReturns(r) == uct' # uct /\ uct'.pc = "idle" /\ uct'.ret = r

\* C26: when updateCompleteTimeField has run on a task note, the note has a
\* completion time exactly if its done flag is true; the call writes, and
\* returns true, exactly when the note's done flag and completion time did
\* not match, and else returns false and writes nothing.
C26_CompleteTimeMatchesDone ==
    [][isNoteATask(PropsOf(file)) =>
        /\ (UpdateReturns("true") \/ UpdateReturns("false")) =>
               (~NoCompleteTime(PropsOf(file')) <=> PropsOf(file').n = 1)
        /\ (uct.pc = "idle" /\ uct' # uct) =>
               (uct'.pc = "pfm" <=> shouldUpdate(PropsOf(file)))
        /\ UpdateReturns("false") => file' = file]_vars

\* A call has returned true on a task note that is not done and holds a
\* completion time.
C26_Witness ==
    /\ uct.ret = "true"
    /\ isNoteATask(PropsOf(file))
    /\ PropsOf(file).n = 0
    /\ ~NoCompleteTime(PropsOf(file))
    /\ toggles = <<>>

\* C27: every activation of the Complete/Uncomplete control inverts the
\* done flag the note holds when it is activated and writes with it the
\* completion time, the time of the activation when the flag becomes true
\* and the empty string when it becomes false; two activations in a row
\* leave the done flag as it was.
C27_ToggleInvertsDone ==
    /\ \A i \in DOMAIN toggles :
           toggles[i].pc = "done" =>
               /\ toggles[i].left.n = 1 - toggles[i].held.n
               /\ toggles[i].left.s = IF toggles[i].left.n = 1 THEN toggles[i].now ELSE Empty
    /\ \A i, j \in DOMAIN toggles :
           (/\ j = i + 1
            /\ toggles[i].pc = "done" /\ toggles[j].pc = "done"
            /\ toggles[j].held = toggles[i].left) =>
               toggles[j].left.n = toggles[i].held.n

\* Two activations in a row, nothing else having written the note, and the
\* done flag is not what it was.
C27_Witness ==
    /\ Len(toggles) = 2
    /\ toggles[1].pc = "done" /\ toggles[2].pc = "done"
    /\ toggles[2].held = toggles[1].left
    /\ toggles[2].left.n # toggles[1].held.n
    /\ PropsOf(file) = toggles[2].left


----------------------------------------------------------------------------
(* Claims about the due date left by a decision on missed occurrences.     *)

\* The latest of the missed dates of an action.
LastMissed(a) == Moment(a.missedDates[Len(a.missedDates)])

\* C28: after a decision on the missed occurrences of a rule counted from
\* the due date, the new due date is one period after the latest missed
\* date recorded, so that no occurrence lies between them, and it is not
\* itself one of the recorded dates, however late the decision is taken.
C28_NextDueFollowsLastMissed ==
    \A i \in DOMAIN acts :
        (acts[i].decided /\ rule.mode = "after_due") =>
            /\ Moment(acts[i].nextDue) = addRecurrencePeriod(LastMissed(acts[i]), rule)
            /\ \A k \in DOMAIN acts[i].missedDates :
                   Moment(acts[i].missedDates[k]) # Moment(acts[i].nextDue)

\* A decision taken days after the modal opened has been committed, and an
\* occurrence lies between the latest recorded date and the new due date.
C28_Witness ==
    \E i \in DOMAIN acts :
        /\ acts[i].decided /\ acts[i].pc = "done"
        /\ rule.mode = "after_due"
        /\ DayOf(clock) > DayOf(Moment(acts[i].now))
        /\ Moment(acts[i].nextDue) > addRecurrencePeriod(LastMissed(acts[i]), rule)
        /\ DueOf(file) = acts[i].nextDue


----------------------------------------------------------------------------
(* Claims about actions that follow one another.                           *)

\* The occurrences an action accounts for: the missed dates it records, or
\* the due date it completes.
Accounted(a) ==
    IF a.decided
    THEN {Moment(a.missedDates[k]) : k \in DOMAIN a.missedDates}
    ELSE {Moment(a.currentDue)}

\* The actions that have written the due property.
Committed == {i \in DOMAIN acts : acts[i].wrote}

\* C29: an occurrence is accounted for by one completion action at most: an
\* action that follows another works from the due date the earlier one
\* wrote, so no two actions record the same due date.
C29_OccurrenceRecordedOnce ==
    \A i, j \in Committed :
        i < j => /\ Accounted(acts[i]) \cap Accounted(acts[j]) = {}
                 /\ acts[j].currentDue # acts[i].currentDue

\* Two actions have run to their end on the same due date.
C29_Witness ==
    \E i, j \in DOMAIN acts :
        /\ i < j
        /\ acts[i].pc = "done" /\ acts[j].pc = "done"
        /\ acts[j].currentDue = acts[i].currentDue
        /\ acts[j].missedDates = acts[i].missedDates
        /\ ~DueMissing(acts[j].currentDue)
        /\ DueOf(file) = acts[j].nextDue


----------------------------------------------------------------------------
(* Claims about the modal of the missed occurrences.                       *)

\* The action opened the modal when it was invoked.
EnteredModal(a) == NeedsDecision(a.missedDates)

\* handleMissedRecurrences is running or has run for the action.
Handled(a) == a.pc \in {"pfm", "read", "modify", "done", "failed"}

\* C30: for an action that opens the modal, handleMissedRecurrences runs
\* once at most, begun by a button of the open modal, and never when the
\* modal is closed without a choice.
C30_HandledAtMostOnce ==
    /\ [](\A i \in DOMAIN acts :
            EnteredModal(acts[i]) =>
                /\ acts[i].pc \in {"modal", "abandoned"} => ~acts[i].decided /\ ~acts[i].wrote
                /\ Handled(acts[i]) => acts[i].decided)
    /\ [][\A i \in DOMAIN acts :
            EnteredModal(acts[i]) =>
                /\ (acts[i].pc # "pfm" /\ acts'[i].pc = "pfm") => acts[i].pc = "modal"
                /\ acts[i].pc # "modal" => acts'[i].pc # "modal"
                /\ acts[i].pc = "abandoned" => acts'[i] = acts[i]]_vars

\* One modal was closed without a choice and stays so while a later action
\* on the same missed dates was decided and ran to its end.
C30_Witness ==
    \E i, j \in DOMAIN acts :
        /\ i < j
        /\ EnteredModal(acts[i]) /\ acts[i].pc = "abandoned"
        /\ EnteredModal(acts[j]) /\ acts[j].pc = "done" /\ acts[j].decided
        /\ DueOf(file) = acts[j].nextDue

====
